---- MODULE Spec2Model ----
(***************************************************************************)
(* A model of frappe-connector: the Frappe facade (key-based construction, *)
(* cookie login, db()/file() accessors), the FrappeDB document operations  *)
(* and FrappeUpload.upload, over an HTTP transport (axios) whose responses *)
(* are chosen nondeterministically.                                        *)
(***************************************************************************)
EXTENDS Integers, Sequences, FiniteSets, TLC

VARIABLES
    cfg,        \* FrappeOptions given to the constructor (immutable)
    env,        \* ambient browser context: window, document, location, csrf_token
    phase,      \* "new" | "ready" | "ctor_threw"
    clients,    \* the axios instances made by axios.create, in creation order
    instance,   \* Frappe.instance: 0 is the {} placeholder, n > 0 is clients[n]
    logins,     \* the login() calls made so far
    handles,    \* the FrappeDB / FrappeUpload objects handed out by db() / file()
    calls,      \* the document, RPC and upload calls made so far
    requests    \* every HTTP request issued, in issue order

vars == <<cfg, env, phase, clients, instance, logins, handles, calls, requests>>

----------------------------------------------------------------------------
(* Bounds of the model *)

MaxLogins == 2
MaxHandles == 2
MaxCalls == 1

----------------------------------------------------------------------------
(* JavaScript values *)

\* the value of an option, argument or field that is not given
Undef == "<undefined>"

\* `if (v)` on a string or undefined
Truthy(v) == v # Undef /\ v # ""

\* `${v}` in a template literal
Str(v) == IF v = Undef THEN "undefined" ELSE v

\* s.startsWith(p)
StartsWith(s, p) == Len(s) >= Len(p) /\ SubSeq(s, 1, Len(p)) = p

\* { ...a, ...b }: the keys of both, b's value where both have the key
Merge(a, b) == [k \in DOMAIN a \cup DOMAIN b |-> IF k \in DOMAIN b THEN b[k] ELSE a[k]]

\* o[k] of an object that may lack the key
Get(o, k) == IF k \in DOMAIN o THEN o[k] ELSE Undef

\* an operator that keeps its left operand, undefined or not
KeepLeft(a, b) == a

\* a ?? b on strings
Coalesce(a, b) == IF a = Undef THEN b ELSE a

\* cookies.find(cookie => cookie.startsWith('sid=')): the first match, or
\* undefined
RECURSIVE FindSid(_)
FindSid(cookies) ==
    IF cookies = <<>> THEN Undef
    ELSE IF StartsWith(Head(cookies), "sid=") THEN Head(cookies)
    ELSE FindSid(Tail(cookies))

\* an object with no keys
NoHeaders == [k \in {} |-> ""]
NoParams == [k \in {} |-> ""]

----------------------------------------------------------------------------
(* axios-config.ts *)

CommonDefaults ==
    [k \in {"Accept", "Content-Type"} |->
        IF k = "Accept" THEN "application/json" ELSE "application/json; charset=utf-8"]

\* getCommonHeaders reads window.csrf_token outside the typeof guard: with no
\* window the read throws a ReferenceError
CommonHeadersThrows(e) == ~e.hasWindow

\* the headers getCommonHeaders returns when it does not throw
getCommonHeaders(baseURL, customHeaders, e) ==
    LET h0 == Merge(CommonDefaults, customHeaders)
        h1 == IF e.hasWindow /\ e.hasDocument /\ Truthy(baseURL) /\ baseURL = e.origin
              THEN Merge(h0, [k \in {"X-Frappe-Site-Name"} |-> e.hostname])
              ELSE h0
    IN  IF Truthy(e.csrf_token) /\ e.csrf_token # "{{ csrf_token }}"
        THEN Merge(h1, [k \in {"X-Frappe-CSRF-Token"} |-> e.csrf_token])
        ELSE h1

\* the client getInstanceWithKeys makes when getCommonHeaders does not throw
getInstanceWithKeys(url, apiKey, secretKey, headers, e) ==
    [baseURL |-> url,
     headers |-> Merge([k \in {"Authorization"} |->
                            "token " \o Str(apiKey) \o ":" \o Str(secretKey)],
                       getCommonHeaders(url, headers, e)),
     withCredentials |-> TRUE]

\* the request getInstanceWithCredentials posts through the global axios
LoginRequest(url, username, password, headers, e) ==
    [via |-> "axios", client |-> 0, method |-> "POST",
     url |-> url \o "/api/method/login",
     body |-> [usr |-> username, pwd |-> password],
     headers |-> getCommonHeaders(url, headers, e)]

\* axios' default validateStatus: the promise resolves for 2xx and rejects
\* for every other status, and rejects when no response arrives
AxiosResolves(res) == res.received /\ res.status >= 200 /\ res.status < 300

\* a client that is handed over before its Cookie header is set
CookieClientWithoutCookie(url, sidCookie, headers, e) ==
    [baseURL |-> url,
     headers |-> getCommonHeaders(url, headers, e),
     withCredentials |-> FALSE]

\* the client getInstanceWithCredentials makes from a session cookie
CookieClient(url, sidCookie, headers, e) ==
    [baseURL |-> url,
     headers |-> Merge([k \in {"Cookie"} |-> sidCookie],
                       getCommonHeaders(url, headers, e)),
     withCredentials |-> FALSE]

LoginFailed(url) == [name |-> "Error", message |-> "Failed to login to " \o url]

\* the outcome of getInstanceWithCredentials once the POST has settled with res:
\* <<"ok", sidCookie>> or <<"throw", error>>
LoginOutcome(url, res) ==
    IF ~AxiosResolves(res)
    THEN <<"throw", [name |-> "AxiosError",
                     message |-> IF res.received THEN "Request failed with status code"
                                 ELSE "Network Error"]>>
    ELSE LET sidCookie == IF res.hasSetCookie THEN FindSid(res.setCookie) ELSE Undef
         IN  IF res.status = 200 /\ Truthy(sidCookie)
             THEN <<"ok", sidCookie>>
             ELSE <<"throw", LoginFailed(url)>>

----------------------------------------------------------------------------
(* Inputs: configurations, browser contexts, login responses *)

Url == "https://frappe.cloud"

\* the caller's extra headers (FrappeOptions.headers)
HeaderSets ==
    { NoHeaders,
      [k \in {"Authorization"} |-> "Bearer mine"],
      [k \in {"Cookie", "Accept"} |-> IF k = "Cookie" THEN "sid=mine" ELSE "text/plain"] }

AllConfigs ==
    [url : {Url},
     username : {Undef, "admin"}, password : {Undef, "pw"},
     apiKey : {Undef, "key"}, secretKey : {Undef, "secret"},
     headers : HeaderSets]

\* no window (Node, SSR); a page of the Frappe site itself with a CSRF token;
\* a page of another origin whose token is the unrendered placeholder
NodeEnv ==
    [hasWindow |-> FALSE, hasDocument |-> FALSE, origin |-> Undef,
     hostname |-> Undef, csrf_token |-> Undef]
SiteEnv ==
    [hasWindow |-> TRUE, hasDocument |-> TRUE, origin |-> Url,
     hostname |-> "frappe.cloud", csrf_token |-> "tok123"]
OtherEnv ==
    [hasWindow |-> TRUE, hasDocument |-> TRUE, origin |-> "https://app.example",
     hostname |-> "app.example", csrf_token |-> "{{ csrf_token }}"]

AllEnvs == {NodeEnv, SiteEnv, OtherEnv}

\* the caller's extra headers, with each header getCommonHeaders sets itself
WideHeaderSets ==
    HeaderSets \cup
    { [k \in {"Accept", "Content-Type"} |->
          IF k = "Accept" THEN "text/plain" ELSE "application/xml"],
      [k \in {"X-Frappe-Site-Name"} |-> "my.site"],
      [k \in {"X-Frappe-CSRF-Token"} |-> "mytoken"] }

\* further contexts: a page of the site without a token, a page of another
\* origin with a token, a page whose token is the empty string, and a window
\* without a document (React Native)
SiteEnvNoToken == [SiteEnv EXCEPT !.csrf_token = Undef]
OtherEnvToken == [OtherEnv EXCEPT !.csrf_token = "tok456"]
SiteEnvEmptyToken == [SiteEnv EXCEPT !.csrf_token = ""]
WindowOnlyEnv ==
    [hasWindow |-> TRUE, hasDocument |-> FALSE, origin |-> Undef,
     hostname |-> Undef, csrf_token |-> Undef]

HeaderEnvs ==
    AllEnvs \cup {SiteEnvNoToken, OtherEnvToken, SiteEnvEmptyToken, WindowOnlyEnv}

\* configurations holding one credential pair, with every header set, for the
\* site's URL and for an empty base URL
HeaderConfigs ==
    {c \in [url : {Url, ""},
            username : {Undef, "admin"}, password : {Undef, "pw"},
            apiKey : {Undef, "key"}, secretKey : {Undef, "secret"},
            headers : WideHeaderSets] :
        /\ (c.username = Undef) = (c.password = Undef)
        /\ (c.apiKey = Undef) = (c.secretKey = Undef)
        /\ (c.username = Undef) # (c.apiKey = Undef)}

\* the request failed with no HTTP response (error.response is undefined)
NoResponse ==
    [received |-> FALSE, status |-> 0, statusText |-> "", hasSetCookie |-> FALSE,
     setCookie |-> <<>>, data |-> NoParams]

\* what the login endpoint may answer
LoginResponses ==
    {NoResponse} \cup
    [received : {TRUE}, status : {200, 201, 401}, statusText : {""},
     hasSetCookie : {TRUE}, setCookie : {<<"lang=en">>, <<"lang=en", "sid=abc">>},
     data : {NoParams}] \cup
    [received : {TRUE}, status : {200, 401}, statusText : {""},
     hasSetCookie : {FALSE}, setCookie : {<<>>}, data : {NoParams}]

----------------------------------------------------------------------------
(* The Frappe facade *)

EmptyInstance == 0

NoError == [name |-> "", message |-> ""]
DontNeedLogin ==
    [name |-> "Error",
     message |-> "You don't need to login if you have API key and secret key"]
NeedCredentials ==
    [name |-> "Error",
     message |-> "You need to provide username and password or API key and secret key"]
ReferenceError == [name |-> "ReferenceError", message |-> "window is not defined"]

InitWith(Configs, Envs) ==
    /\ cfg \in Configs
    /\ env \in Envs
    /\ phase = "new"
    /\ clients = <<>>
    /\ instance = EmptyInstance
    /\ logins = <<>>
    /\ handles = <<>>
    /\ calls = <<>>
    /\ requests = <<>>

\* whether the constructor builds the key-based client
HasKeys(c) == Truthy(c.apiKey) /\ Truthy(c.secretKey)

\* new Frappe(options)
Construct ==
    /\ phase = "new"
    /\ IF HasKeys(cfg)
       THEN IF CommonHeadersThrows(env)
            THEN /\ phase' = "ctor_threw"
                 /\ UNCHANGED <<clients, instance>>
            ELSE /\ clients' = Append(clients,
                        getInstanceWithKeys(cfg.url, cfg.apiKey, cfg.secretKey,
                                            cfg.headers, env))
                 /\ instance' = Len(clients')
                 /\ phase' = "ready"
       ELSE /\ phase' = "ready"
            /\ instance' = EmptyInstance
            /\ UNCHANGED clients
    /\ UNCHANGED <<cfg, env, logins, handles, calls, requests>>

\* a login() that takes the credentials branch whenever the keys are missing
LoginBranchWithoutElse(c) ==
    IF Truthy(c.apiKey) /\ Truthy(c.secretKey) THEN "keys" ELSE "credentials"

\* which branch login() takes
LoginBranch(c) ==
    IF Truthy(c.username) /\ Truthy(c.password) THEN "credentials"
    ELSE IF Truthy(c.apiKey) /\ Truthy(c.secretKey) THEN "keys"
    ELSE "none"

\* frappe.login(), up to its first suspension: it throws, or posts the login
\* request and awaits it
Login ==
    /\ phase = "ready"
    /\ Len(logins) < MaxLogins
    /\ LET b == LoginBranch(cfg)
           me == Len(logins) + 1
       IN  IF b = "credentials"
           THEN IF CommonHeadersThrows(env)
                THEN /\ logins' = Append(logins,
                            [state |-> "rejected", error |-> ReferenceError,
                             before |-> instance, made |-> 0])
                     /\ UNCHANGED requests
                ELSE /\ logins' = Append(logins,
                            [state |-> "inflight", error |-> NoError,
                             before |-> instance, made |-> 0])
                     /\ requests' = Append(requests,
                            [owner |-> <<"login", me>>, settled |-> FALSE,
                             res |-> NoResponse,
                             req |-> LoginRequest(cfg.url, cfg.username, cfg.password,
                                                  cfg.headers, env)])
           ELSE /\ logins' = Append(logins,
                       [state |-> "rejected",
                        error |-> IF b = "keys" THEN DontNeedLogin ELSE NeedCredentials,
                        before |-> instance, made |-> 0])
                /\ UNCHANGED requests
    /\ UNCHANGED <<cfg, env, phase, clients, instance, handles, calls>>

\* a login() that drops the held client when it fails
HeldAfterOrNone(out, held, made) == IF out[1] = "ok" THEN made ELSE EmptyInstance

\* this.instance = await getInstanceWithCredentials(...): the assignment runs
\* only when the awaited promise resolves
HeldAfter(out, held, made) == IF out[1] = "ok" THEN made ELSE held

\* the login request of login call i
LoginReq(i) == CHOOSE r \in 1..Len(requests) : requests[r].owner = <<"login", i>>

\* the awaited login POST settles with res: login() resumes, and either
\* replaces this.instance by the new client or rejects
LoginSettle(i, res) ==
    /\ i \in 1..Len(logins)
    /\ logins[i].state = "inflight"
    /\ LET out == LoginOutcome(cfg.url, res)
           r == LoginReq(i)
       IN  /\ requests' = [requests EXCEPT ![r].settled = TRUE, ![r].res = res]
           /\ IF out[1] = "ok"
              THEN /\ clients' = Append(clients,
                          CookieClient(cfg.url, out[2], cfg.headers, env))
                   /\ logins' = [logins EXCEPT ![i].state = "resolved",
                                               ![i].made = Len(clients')]
              ELSE /\ logins' = [logins EXCEPT ![i].state = "rejected",
                                               ![i].error = out[2]]
                   /\ UNCHANGED clients
           /\ instance' = HeldAfter(out, instance, Len(clients'))
    /\ UNCHANGED <<cfg, env, phase, handles, calls>>

\* frappe.db() / frappe.file(): a new object holding the current this.instance
Accessor(kind) ==
    /\ phase = "ready"
    /\ Len(handles) < MaxHandles
    /\ handles' = Append(handles, [kind |-> kind, instance |-> instance])
    /\ UNCHANGED <<cfg, env, phase, clients, instance, logins, calls, requests>>

db == Accessor("db")
file == Accessor("file")

----------------------------------------------------------------------------
(* Values the document operations marshal *)

\* an optional value that is not a string: <<>> is undefined, <<v>> is v
None == <<>>
Some(v) == <<v>>

\* o.k of an object whose values are optional values
Field(o, k) == IF k \in DOMAIN o THEN o[k] ELSE None

\* null, as the docname of updateDoc and the name of deleteDoc
Null == "<null>"

\* `${v}` where v may be null
StrN(v) == IF v = Null THEN "null" ELSE Str(v)

\* `if (v)` where v may be null
TruthyN(v) == v # Null /\ Truthy(v)

\* encodeURIComponent, one character at a time
EncodeChar(c) ==
    IF c = " " THEN "%20"
    ELSE IF c = "/" THEN "%2F"
    ELSE IF c = "?" THEN "%3F"
    ELSE IF c = "#" THEN "%23"
    ELSE c

RECURSIVE encodeURIComponent(_)
encodeURIComponent(str) ==
    IF Len(str) = 0 THEN ""
    ELSE EncodeChar(SubSeq(str, 1, 1)) \o encodeURIComponent(SubSeq(str, 2, Len(str)))

\* JSON.stringify of a string, of an array of strings, and of an array of
\* arrays of strings (a list of filters)
JsonString(str) == "\"" \o str \o "\""

RECURSIVE JsonItems(_, _)
JsonItems(items, sep) ==
    IF items = <<>> THEN ""
    ELSE sep \o Head(items) \o JsonItems(Tail(items), ",")

JsonStrings(arr) ==
    "[" \o JsonItems([i \in 1..Len(arr) |-> JsonString(arr[i])], "") \o "]"

JsonFilters(arr) ==
    "[" \o JsonItems([i \in 1..Len(arr) |-> JsonStrings(arr[i])], "") \o "]"

----------------------------------------------------------------------------
(* FrappeDB: the request each operation builds *)

Request(method, url, params, body) ==
    [method |-> method, url |-> url, params |-> params, body |-> body,
     headers |-> NoHeaders]

\* getDoc(doctype, docname = '')
getDocRequest(doctype, docname) ==
    Request("GET",
            "/api/resource/" \o doctype \o "/"
                \o encodeURIComponent(IF docname = Undef THEN "" ELSE docname),
            NoParams, NoParams)

\* the params getDocList builds from args
getDocListParams(args) ==
    IF args = None THEN NoParams
    ELSE LET a == args[1]
             fields == Field(a, "fields")
             filters == Field(a, "filters")
             orFilters == Field(a, "orFilters")
             orderBy == Field(a, "orderBy")
             asDict == IF Field(a, "asDict") = None THEN TRUE ELSE Field(a, "asDict")[1]
             orderByString ==
                 IF orderBy # None
                 THEN Str(orderBy[1].field) \o " " \o Coalesce(orderBy[1].order, "asc")
                 ELSE ""
         IN  [fields |-> IF fields # None THEN JsonStrings(fields[1]) ELSE Undef,
              filters |-> IF filters # None THEN JsonFilters(filters[1]) ELSE Undef,
              or_filters |-> IF orFilters # None THEN JsonFilters(orFilters[1]) ELSE Undef,
              order_by |-> orderByString,
              group_by |-> Field(a, "groupBy"),
              limit |-> Field(a, "limit"),
              limit_start |-> Field(a, "limit_start"),
              as_dict |-> asDict]

getDocListRequest(doctype, args) ==
    Request("GET", "/api/resource/" \o doctype, getDocListParams(args), NoParams)

createDocRequest(doc) ==
    Request("POST", "/api/resource/" \o doc.doctype, NoParams, doc)

createManyDocsRequest(docs) ==
    Request("POST", "", NoParams,
            [params |-> [cmd |-> "frappe.client.insert_many", docs |-> docs]])

updateDocRequest(doctype, docname, value) ==
    Request("PUT",
            "/api/resource/" \o doctype \o "/"
                \o (IF TruthyN(docname) THEN encodeURIComponent(docname) ELSE StrN(docname)),
            NoParams, value)

updateManyDocsRequest(docs) ==
    Request("POST", "", NoParams,
            [params |-> [cmd |-> "frappe.client.bulk_update", docs |-> docs]])

submitDocRequest(doctype, name) ==
    Request("POST", "", NoParams,
            [params |-> [cmd |-> "frappe.client.submit",
                         doc |-> [doctype |-> doctype, name |-> name]]])

cancelDocRequest(doctype, name) ==
    Request("POST", "", NoParams,
            [params |-> [cmd |-> "frappe.client.cancel", doctype |-> doctype,
                         name |-> name]])

renameDocRequest(doctype, old_name, new_name) ==
    Request("POST", "", NoParams,
            [params |-> [cmd |-> "frappe.client.rename_doc", doctype |-> doctype,
                         old_name |-> old_name, new_name |-> new_name]])

deleteDocRequest(doctype, name) ==
    Request("POST", "", NoParams,
            [cmd |-> "frappe.client.delete", doctype |-> doctype, name |-> name])

\* params whose filters are a JSON string in every case
getCountParamsAllStrings(doctype, filters, cache, debug) ==
    LET p0 == [cmd |-> "frappe.client.get_count", doctype |-> doctype,
               filters |-> [isString |-> TRUE,
                            value |-> IF filters # None THEN JsonFilters(filters[1])
                                      ELSE "[]"]]
        p1 == IF cache THEN Merge(p0, [k \in {"cache"} |-> cache]) ELSE p0
    IN  IF debug THEN Merge(p1, [k \in {"debug"} |-> debug]) ELSE p1

\* the params of getCount: filters is the empty array unless filters are given,
\* and then their JSON string
getCountParams(doctype, filters, cache, debug) ==
    LET p0 == [cmd |-> "frappe.client.get_count", doctype |-> doctype,
               filters |-> [isString |-> FALSE, value |-> "[]"]]
        p1 == IF cache THEN Merge(p0, [k \in {"cache"} |-> cache]) ELSE p0
        p2 == IF debug THEN Merge(p1, [k \in {"debug"} |-> debug]) ELSE p1
    IN  IF filters # None
        THEN Merge(p2, [k \in {"filters"} |->
                            [isString |-> TRUE, value |-> JsonFilters(filters[1])]])
        ELSE p2

getCountRequest(doctype, filters, cache, debug) ==
    Request("GET", "", getCountParams(doctype, filters, cache, debug), NoParams)

\* the arguments getLastDoc passes to getDocList
getLastDocQuery(args) ==
    LET defaults == [k \in {"orderBy"} |-> Some([field |-> "creation", order |-> "desc"])]
        queryArgs == IF args # None THEN Merge(defaults, args[1]) ELSE defaults
    IN  Some(Merge(queryArgs,
                   [k \in {"limit", "fields"} |->
                        IF k = "limit" THEN Some(1) ELSE Some(<<"name">>)]))

----------------------------------------------------------------------------
(* FrappeUpload: the form upload builds *)

Entry(key, value) == [key |-> key, value |-> value]

RECURSIVE AppendAll(_, _)
AppendAll(form, entries) ==
    IF entries = <<>> THEN form
    ELSE AppendAll(Append(form, Head(entries)), Tail(entries))

\* a form whose document fields are attached when either of doctype and
\* docname is given
uploadFormEitherOne(fileArg, args) ==
    LET f0 == IF fileArg # None THEN <<Entry("file", fileArg[1])>> ELSE <<>>
        f1 == IF "isPrivate" \in DOMAIN args /\ args.isPrivate
              THEN Append(f0, Entry("is_private", "1")) ELSE f0
        f4 == IF Truthy(Get(args, "doctype")) \/ Truthy(Get(args, "docname"))
              THEN LET g == Append(Append(f1, Entry("doctype", Get(args, "doctype"))),
                                   Entry("docname", Get(args, "docname")))
                   IN  IF Truthy(Get(args, "fieldname"))
                       THEN Append(g, Entry("fieldname", args.fieldname)) ELSE g
              ELSE f1
    IN  f4

\* the FormData of upload(file, args): file is an optional file name, args an
\* object whose otherData is a list of key/value entries in key order
uploadForm(fileArg, args) ==
    LET f0 == IF fileArg # None THEN <<Entry("file", fileArg[1])>> ELSE <<>>
        f1 == IF "isPrivate" \in DOMAIN args /\ args.isPrivate
              THEN Append(f0, Entry("is_private", "1")) ELSE f0
        f2 == IF Truthy(Get(args, "folder"))
              THEN Append(f1, Entry("folder", args.folder)) ELSE f1
        f3 == IF Truthy(Get(args, "file_url"))
              THEN Append(f2, Entry("file_url", args.file_url)) ELSE f2
        f4 == IF Truthy(Get(args, "doctype")) /\ Truthy(Get(args, "docname"))
              THEN LET g == Append(Append(f3, Entry("doctype", args.doctype)),
                                   Entry("docname", args.docname))
                   IN  IF Truthy(Get(args, "fieldname"))
                       THEN Append(g, Entry("fieldname", args.fieldname)) ELSE g
              ELSE f3
    IN  IF "otherData" \in DOMAIN args THEN AppendAll(f4, args.otherData) ELSE f4

uploadRequest(fileArg, args, apiPath) ==
    [method |-> "POST", url |-> "/api/method/" \o apiPath, params |-> NoParams,
     body |-> [form |-> uploadForm(fileArg, args)],
     headers |-> [k \in {"Content-Type"} |-> "multipart/form-data"]]

----------------------------------------------------------------------------
(* The shared error handling of the operations *)

DbOps ==
    {"getDoc", "getDocList", "createDoc", "createManyDocs", "updateDoc",
     "updateManyDocs", "submitDoc", "cancelDoc", "renameDoc", "deleteDoc",
     "getCount", "getLastDoc"}
FileOps == {"upload"}

\* the fallback message of each operation's catch handler
FallbackMessage(op) ==
    CASE op = "getDoc" -> "There was an error while fetching the document."
      [] op = "getDocList" -> "There was an error while fetching the documents."
      [] op = "createDoc" -> "There was an error while creating the document."
      [] op = "createManyDocs" -> "There was an error while creating the documents."
      [] op = "updateDoc" -> "There was an error while updating the document."
      [] op = "updateManyDocs" -> "There was an error while updating the documents."
      [] op = "submitDoc" -> "There was an error while submitting the document."
      [] op = "cancelDoc" -> "There was an error while cancelling the document."
      [] op = "renameDoc" -> "There was an error while renaming the document."
      [] op = "deleteDoc" -> "There was an error while deleting the document."
      [] op = "getCount" -> "There was an error while getting the count."
      [] op = "upload" -> "There was an error while uploading the file."

\* the operations whose message is the remote message when there is one
PrefersRemoteMessage(op) ==
    op \in {"createDoc", "createManyDocs", "updateDoc", "updateManyDocs",
            "submitDoc", "cancelDoc", "renameDoc", "upload"}

\* the fallbacks taken with || instead of ??
ExceptionOfFalsy(op, data) ==
    IF Truthy(Get(data, "exception")) THEN data.exception
    ELSE IF op # "upload" /\ Truthy(Get(data, "exc_type")) THEN data.exc_type
    ELSE ""

\* error.response.data.exception ?? error.response.data.exc_type ?? ''
\* (upload: error.response.data.exception ?? '')
ExceptionOf(op, data) ==
    IF op = "upload" THEN Coalesce(Get(data, "exception"), "")
    ELSE Coalesce(Get(data, "exception"), Coalesce(Get(data, "exc_type"), ""))

\* the object a catch handler throws for a failure that carries a response
NormalizedError(op, res) ==
    Merge(res.data,
          [httpStatus |-> res.status,
           httpStatusText |-> res.statusText,
           message |-> IF PrefersRemoteMessage(op)
                       THEN Coalesce(Get(res.data, "message"), FallbackMessage(op))
                       ELSE FallbackMessage(op),
           exception |-> ExceptionOf(op, res.data)])

\* reading error.response.data when error.response is undefined
NoResponseTypeError ==
    [name |-> "TypeError",
     message |-> "Cannot read properties of undefined (reading 'data')"]

\* calling .get/.post/.put of the {} placeholder
NotAFunction ==
    [name |-> "TypeError", message |-> "this.instance.get is not a function"]

\* what the catch handler of op throws when the request settled with res
CatchError(op, res) ==
    IF res.received THEN NormalizedError(op, res) ELSE NoResponseTypeError

\* what the then handler of op returns
ResultOf(op, res) ==
    CASE op = "deleteDoc" -> Some(res.data)
      [] op = "getCount" -> Some(res.data.message)
      [] op = "upload" -> Some(res)
      [] OTHER -> Some(res.data.data)

----------------------------------------------------------------------------
(* Inputs of the operations and answers of the backend *)

Doctype == "ToDo"
NewDoc == [doctype |-> Doctype, description |-> "buy milk"]
StoredDoc == [name |-> "TD 1", doctype |-> Doctype, description |-> "buy milk"]
SomeFilters == << <<"creation", ">", "2021-10-09">> >>

\* the arguments of the README's getDocList example
ReadmeListArgs ==
    [fields |-> Some(<<"name", "creation">>), filters |-> Some(SomeFilters),
     orFilters |-> Some(<<>>), limit_start |-> Some(5), limit |-> Some(10),
     orderBy |-> Some([field |-> "creation", order |-> "desc"]),
     groupBy |-> Some("name"), asDict |-> Some(FALSE)]

LastDocArgs ==
    { [k \in {"filters"} |-> Some(SomeFilters)],
      [k \in {"orderBy"} |-> Some([field |-> "modified", order |-> Undef])] }

UploadArgs ==
    { [isPrivate |-> TRUE, folder |-> "Home", doctype |-> "User",
       docname |-> "Administrator", fieldname |-> "image"],
      [k \in {"doctype"} |-> "User"],
      [otherData |-> <<Entry("optimize", "1")>>] }

OpInputs(op) ==
    CASE op = "getDoc" -> [doctype : {Doctype}, docname : {Undef, "TD 1"}]
      [] op = "getDocList" -> [doctype : {Doctype}, args : {None, Some(ReadmeListArgs)}]
      [] op = "createDoc" -> [doc : {NewDoc}]
      [] op \in {"createManyDocs", "updateManyDocs"} -> [docs : {<<NewDoc>>}]
      [] op = "updateDoc" ->
            [doctype : {Doctype}, docname : {"TD 1", Null},
             value : {[description |-> "buy bread"]}]
      [] op \in {"submitDoc", "cancelDoc", "deleteDoc"} ->
            [doctype : {Doctype}, name : {"TD 1"}]
      [] op = "renameDoc" ->
            [doctype : {Doctype}, old_name : {"TD 1"}, new_name : {"TD 9"}]
      [] op = "getCount" ->
            { [doctype |-> Doctype, filters |-> None, cache |-> FALSE, debug |-> FALSE],
              [doctype |-> Doctype, filters |-> Some(SomeFilters), cache |-> TRUE,
               debug |-> FALSE] }
      [] op = "getLastDoc" ->
            [doctype : {Doctype}, args : {None} \cup {Some(a) : a \in LastDocArgs}]
      [] op = "upload" ->
            [file : {Some("photo.png")}, args : UploadArgs, apiPath : {"upload_file"}]

\* an object that has key k with a value of V, or lacks it
Opt(k, V) == {NoParams} \cup {[x \in {k} |-> v] : v \in V}

\* the args of upload: every combination of isPrivate, doctype, docname and
\* fieldname, alone, with an empty file_url and extra data, and with folder,
\* file_url and extra data
WideUploadArgs ==
    {Merge(Merge(Merge(a, b), Merge(c, d)), e) :
        a \in Opt("isPrivate", {TRUE, FALSE}),
        b \in Opt("doctype", {"User"}),
        c \in Opt("docname", {"", "Administrator"}),
        d \in Opt("fieldname", {"image"}),
        e \in {NoParams,
               [file_url |-> "", otherData |-> <<Entry("optimize", "1")>>],
               [folder |-> "Home", file_url |-> "/files/photo.png",
                otherData |-> <<Entry("optimize", "1"), Entry("note", "")>>]}}

UploadInputs ==
    [file : {Some("photo.png")}, args : WideUploadArgs, apiPath : {"upload_file"}]

\* the args of getDocList: every combination of filters, orderBy, limit and
\* asDict, alone and with fields, orFilters, limit_start and groupBy
WideListArgs ==
    {Merge(Merge(Merge(a, b), Merge(c, d)), e) :
        a \in Opt("filters", {Some(SomeFilters)}),
        b \in Opt("orderBy", {Some([field |-> "creation", order |-> "desc"]),
                              Some([field |-> "modified", order |-> Undef])}),
        c \in Opt("limit", {Some(10)}),
        d \in Opt("asDict", {Some(TRUE), Some(FALSE)}),
        e \in {NoParams,
               [fields |-> Some(<<"name", "creation">>),
                orFilters |-> Some(<< <<"owner", "=", "me">>, <<"status", "=", "Open">> >>),
                limit_start |-> Some(5), groupBy |-> Some("name")]}}

ListInputs == [doctype : {Doctype}, args : {Some(a) : a \in WideListArgs}]

\* the arguments of getCount: no filters, an empty list of filters, filters
CountInputs ==
    [doctype : {Doctype, "Sales Invoice"},
     filters : {None, Some(<<>>), Some(SomeFilters)},
     cache : BOOLEAN, debug : BOOLEAN]

\* the request op builds from its arguments
BuildRequest(op, in) ==
    CASE op = "getDoc" -> getDocRequest(in.doctype, in.docname)
      [] op = "getDocList" -> getDocListRequest(in.doctype, in.args)
      [] op = "createDoc" -> createDocRequest(in.doc)
      [] op = "createManyDocs" -> createManyDocsRequest(in.docs)
      [] op = "updateDoc" -> updateDocRequest(in.doctype, in.docname, in.value)
      [] op = "updateManyDocs" -> updateManyDocsRequest(in.docs)
      [] op = "submitDoc" -> submitDocRequest(in.doctype, in.name)
      [] op = "cancelDoc" -> cancelDocRequest(in.doctype, in.name)
      [] op = "renameDoc" -> renameDocRequest(in.doctype, in.old_name, in.new_name)
      [] op = "deleteDoc" -> deleteDocRequest(in.doctype, in.name)
      [] op = "getCount" -> getCountRequest(in.doctype, in.filters, in.cache, in.debug)
      [] op = "getLastDoc" -> getDocListRequest(in.doctype, getLastDocQuery(in.args))
      [] op = "upload" -> uploadRequest(in.file, in.args, in.apiPath)

Answer(status, statusText, data) ==
    [received |-> TRUE, status |-> status, statusText |-> statusText,
     hasSetCookie |-> FALSE, setCookie |-> <<>>, data |-> data]

\* the error bodies of the backend: with and without exception, exc_type and
\* message
ErrorBodies ==
    { NoParams,
      [k \in {"exc_type"} |-> "DoesNotExistError"],
      [exception |-> "frappe.exceptions.ValidationError", exc_type |-> "ValidationError"],
      [exception |-> "", exc_type |-> "ValidationError"],
      [exception |-> "frappe.exceptions.ValidationError", message |-> "Title is required",
       exc |-> "Traceback"] }

ErrorResponses ==
    {Answer(404, "NOT FOUND", b) : b \in ErrorBodies}
        \cup {Answer(500, "INTERNAL SERVER ERROR", NoParams)}

\* the 2xx answers to the request an operation awaits
SuccessResponses(op) ==
    CASE op \in {"getDocList", "getLastDoc"} ->
            {Answer(200, "OK", [data |-> l]) :
                l \in {<<>>, <<[name |-> "TD 1"]>>, <<[name |-> "TD 2"], [name |-> "TD 1"]>>}}
      [] op \in {"createManyDocs", "updateManyDocs"} ->
            {Answer(200, "OK", [data |-> <<StoredDoc>>])}
      [] op = "deleteDoc" -> {Answer(202, "ACCEPTED", [message |-> "ok"])}
      [] op = "getCount" -> {Answer(200, "OK", [message |-> 42])}
      [] op = "upload" -> {Answer(200, "OK", [message |-> "ok"])}
      [] OTHER -> {Answer(200, "OK", [data |-> StoredDoc])}

----------------------------------------------------------------------------
(* Calls through the objects db() and file() hand out *)

\* an object that looks its client up in the facade at each call
ClientOfFacade(h) == instance

\* the client a FrappeDB / FrappeUpload object sends through: the one it was
\* constructed with
ClientOf(h) == handles[h].instance

\* a placeholder that is a working client
UsableAnyway(client) == FALSE

\* the {} placeholder has no get, post or put method
Unusable(client) == client = EmptyInstance

\* a list whose last item is taken
LastName(getDocLists) == getDocLists[Len(getDocLists)].name

\* getDocLists[0].name
FirstName(getDocLists) == getDocLists[1].name

\* a request that is sent again right away
IssueTwice(c, client, req) ==
    LET r == [owner |-> <<"call", c>>, settled |-> FALSE, res |-> NoResponse,
              req |-> Merge(req, [via |-> "instance", client |-> client])]
    IN  Append(Append(requests, r), r)

OpsOf(kind) == IF kind = "db" THEN DbOps ELSE FileOps

Issue(c, client, req) ==
    Append(requests,
           [owner |-> <<"call", c>>, settled |-> FALSE, res |-> NoResponse,
            req |-> Merge(req, [via |-> "instance", client |-> client])])

\* a call of op on handle h, up to its first suspension: with the {} placeholder
\* the method of the client is undefined and the call rejects at once
Invoke(h, op, in) ==
    /\ phase = "ready"
    /\ Len(calls) < MaxCalls
    /\ h \in 1..Len(handles)
    /\ op \in OpsOf(handles[h].kind)
    /\ LET me == Len(calls) + 1
           client == ClientOf(h)
           call == [handle |-> h, op |-> op, in |-> in, client |-> client,
                    state |-> "inflight", step |-> IF op = "getLastDoc" THEN "list" ELSE "only",
                    result |-> None, error |-> NoError]
       IN  IF Unusable(client)
           THEN /\ calls' = Append(calls, [call EXCEPT !.state = "rejected",
                                                        !.error = NotAFunction])
                /\ UNCHANGED requests
           ELSE /\ calls' = Append(calls, call)
                /\ requests' = Issue(me, client, BuildRequest(op, in))
    /\ UNCHANGED <<cfg, env, phase, clients, instance, logins, handles>>

Call(h, op, in) == in \in OpInputs(op) /\ Invoke(h, op, in)

\* the operation whose request call c awaits
Awaited(c) ==
    IF calls[c].op # "getLastDoc" THEN calls[c].op
    ELSE IF calls[c].step = "list" THEN "getDocList" ELSE "getDoc"

\* the request call c awaits
Pending(c) ==
    CHOOSE r \in 1..Len(requests) : requests[r].owner = <<"call", c>> /\ ~requests[r].settled

\* the request call c awaits settles with res: the then / catch handlers run
Settle(c, res) ==
    /\ calls[c].state = "inflight"
    /\ LET op == Awaited(c)
           settled == [requests EXCEPT ![Pending(c)].settled = TRUE, ![Pending(c)].res = res]
       IN  IF ~AxiosResolves(res)
           THEN /\ calls' = [calls EXCEPT ![c].state = "rejected",
                                          ![c].error = CatchError(op, res)]
                /\ requests' = settled
           ELSE IF calls[c].op = "getLastDoc" /\ calls[c].step = "list"
           THEN LET getDocLists == ResultOf(op, res)[1]
                IN  IF Len(getDocLists) > 0
                    THEN /\ calls' = [calls EXCEPT ![c].step = "get"]
                         /\ requests' =
                                Append(settled,
                                   [owner |-> <<"call", c>>, settled |-> FALSE,
                                    res |-> NoResponse,
                                    req |-> Merge(getDocRequest(calls[c].in.doctype,
                                                                FirstName(getDocLists)),
                                                  [via |-> "instance",
                                                   client |-> calls[c].client])])
                    ELSE /\ calls' = [calls EXCEPT ![c].state = "resolved",
                                                   ![c].result = Some(NoParams)]
                         /\ requests' = settled
           ELSE /\ calls' = [calls EXCEPT ![c].state = "resolved",
                                          ![c].result = ResultOf(op, res)]
                /\ requests' = settled
    /\ UNCHANGED <<cfg, env, phase, clients, instance, logins, handles>>

\* the request of an in-flight call fails: a non-2xx answer, or no answer
CallFails ==
    \E c \in 1..Len(calls), res \in ErrorResponses \cup {NoResponse} : Settle(c, res)

\* the request of an in-flight call is answered with a 2xx
CallSucceeds ==
    \E c \in 1..Len(calls) :
        /\ calls[c].state = "inflight"
        /\ \E res \in SuccessResponses(Awaited(c)) : Settle(c, res)

\* upload, getDocList and getCount with arguments of the wider sets
UploadCall ==
    \E h \in 1..Len(handles) : \E in \in UploadInputs : Invoke(h, "upload", in)
ListCall ==
    \E h \in 1..Len(handles) : \E in \in ListInputs : Invoke(h, "getDocList", in)
CountCall ==
    \E h \in 1..Len(handles) : \E in \in CountInputs : Invoke(h, "getCount", in)

CallOp ==
    \E h \in 1..Len(handles) :
        \E op \in OpsOf(handles[h].kind) : \E in \in OpInputs(op) : Call(h, op, in)

\* the login request of an in-flight login() settles
LoginSettles == \E i \in 1..Len(logins), res \in LoginResponses : LoginSettle(i, res)

\* the same, with one answer of each outcome: no response, a non-2xx answer, a
\* 200 without the session cookie, a 200 with it
LoginSettlesBriefly ==
    \E i \in 1..Len(logins) :
        \E res \in {r \in LoginResponses :
                        \/ ~r.received
                        \/ r.hasSetCookie /\ r.status = 401 /\ Len(r.setCookie) = 1
                        \/ r.hasSetCookie /\ r.status = 200} : LoginSettle(i, res)

----------------------------------------------------------------------------
(* Specifications *)

\* the facade alone, for every configuration and browser context
NextAuth ==
    \/ Construct
    \/ Login
    \/ LoginSettles
    \/ db
    \/ file

SpecAuth == InitWith(AllConfigs, AllEnvs) /\ [][NextAuth]_vars

\* the facade and the operations, on a page of another origin, for the four
\* configurations without extra headers that differ in which credentials they hold
OpConfigs == {c \in AllConfigs : /\ c.headers = NoHeaders
                                 /\ (c.username = Undef) = (c.password = Undef)
                                 /\ (c.apiKey = Undef) = (c.secretKey = Undef)}

Init == InitWith(OpConfigs, {OtherEnv})

Next ==
    \/ Construct
    \/ Login
    \/ LoginSettlesBriefly
    \/ db
    \/ file
    \/ CallOp
    \/ CallFails
    \/ CallSucceeds

Spec == Init /\ [][Next]_vars

\* the operations alone: a facade that holds the key-based client from its
\* construction on, or the {} placeholder for good, and never logs in
KeyOrNoConfigs == {c \in OpConfigs : c.username = Undef}

NextOps ==
    \/ Construct
    \/ db
    \/ file
    \/ CallOp
    \/ CallFails
    \/ CallSucceeds

SpecOps == InitWith(KeyOrNoConfigs, {OtherEnv}) /\ [][NextOps]_vars

\* the client factories alone, for every header set and browser context
NextHeaders ==
    \/ Construct
    \/ Login
    \/ LoginSettlesBriefly

SpecHeaders == InitWith(HeaderConfigs, HeaderEnvs) /\ [][NextHeaders]_vars

\* one operation on the key-based client, its arguments drawn from the wider
\* sets: upload, getDocList, getCount
KeyConfigs == {c \in KeyOrNoConfigs : HasKeys(c)}

NextUpload ==
    \/ Construct
    \/ file
    \/ UploadCall
    \/ CallSucceeds

SpecUpload == InitWith(KeyConfigs, {OtherEnv}) /\ [][NextUpload]_vars

NextList ==
    \/ Construct
    \/ db
    \/ ListCall
    \/ CallSucceeds

SpecList == InitWith(KeyConfigs, {OtherEnv}) /\ [][NextList]_vars

NextCount ==
    \/ Construct
    \/ db
    \/ CountCall
    \/ CallSucceeds
    \/ CallFails

SpecCount == InitWith(KeyConfigs, {OtherEnv}) /\ [][NextCount]_vars

----------------------------------------------------------------------------
(* Properties *)

\* the requests login call i issued, and those call c issued
LoginRequests(i) == {r \in 1..Len(requests) : requests[r].owner = <<"login", i>>}
CallRequests(c) == {r \in 1..Len(requests) : requests[r].owner = <<"call", c>>}

\* the k-th request of call c, in issue order
RECURSIVE NthOf(_, _)
NthOf(S, k) ==
    LET m == CHOOSE r \in S : \A q \in S : r <= q
    IN  IF k = 1 THEN m ELSE NthOf(S \ {m}, k - 1)
FirstRequest(c) == NthOf(CallRequests(c), 1)
LastRequest(c) == NthOf(CallRequests(c), Cardinality(CallRequests(c)))

OnlyCredentials(c) ==
    /\ Truthy(c.username) /\ Truthy(c.password)
    /\ c.apiKey = Undef /\ c.secretKey = Undef

NoCredentials(c) ==
    /\ c.username = Undef /\ c.password = Undef
    /\ c.apiKey = Undef /\ c.secretKey = Undef

\* C1: whenever apiKey and secretKey are both set, every login() rejects with
\* the "You don't need to login" usage error, issues no request and leaves the
\* held client as it was, whether or not username and password are set too.
C1_LoginWithKeysIsAUsageError ==
    HasKeys(cfg) =>
        \A i \in 1..Len(logins) :
            /\ logins[i].state = "rejected"
            /\ logins[i].error = DontNeedLogin
            /\ LoginRequests(i) = {}
            /\ instance = logins[i].before

\* C2: with only username and password set, every login() issues exactly one
\* POST to <url>/api/method/login with body {usr, pwd}; once settled it has
\* either resolved, the facade holding a new client whose Cookie header is the
\* sid= cookie, or rejected with 'Failed to login to <url>', which is the
\* outcome of every non-200 answer and of every 200 answer without a sid= cookie.
C2_LoginPostsOnceThenCookieOrFixedError ==
    OnlyCredentials(cfg) =>
        \A i \in 1..Len(logins) :
            /\ Cardinality(LoginRequests(i)) = 1
            /\ \A r \in LoginRequests(i) :
                  /\ requests[r].req.method = "POST"
                  /\ requests[r].req.url = cfg.url \o "/api/method/login"
                  /\ requests[r].req.body = [usr |-> cfg.username, pwd |-> cfg.password]
                  /\ requests[r].settled =>
                        LET res == requests[r].res
                            sid == IF res.hasSetCookie THEN FindSid(res.setCookie) ELSE Undef
                        IN  IF res.received /\ res.status = 200 /\ sid # Undef
                            THEN /\ logins[i].state = "resolved"
                                 /\ logins[i].made \in 1..Len(clients)
                                 /\ clients[logins[i].made].headers["Cookie"] = sid
                            ELSE /\ logins[i].state = "rejected"
                                 /\ logins[i].error = LoginFailed(cfg.url)
            /\ logins[i].state = "rejected" => logins[i].error = LoginFailed(cfg.url)

\* C3: with apiKey and secretKey both set, construction completes with no
\* request issued and the facade holds a client whose Authorization header is
\* 'token <apiKey>:<secretKey>', whatever extra headers the caller gave.
C3_ConstructionYieldsTokenClient ==
    (HasKeys(cfg) /\ phase # "new" /\ logins = <<>>) =>
        /\ phase = "ready"
        /\ requests = <<>>
        /\ instance \in 1..Len(clients)
        /\ clients[instance].headers["Authorization"] =
              "token " \o cfg.apiKey \o ":" \o cfg.secretKey

\* C4: with none of username, password, apiKey, secretKey set, every login()
\* rejects with the "You need to provide ..." usage error, no request is ever
\* issued and the held client stays the one held before the call.
C4_LoginWithoutCredentialsIsAUsageError ==
    NoCredentials(cfg) =>
        /\ requests = <<>>
        /\ \A i \in 1..Len(logins) :
              /\ logins[i].state = "rejected"
              /\ logins[i].error = NeedCredentials
              /\ instance = logins[i].before

C4_Witness ==
    /\ NoCredentials(cfg)
    /\ Len(logins) >= 1
    /\ logins[1].error = NeedCredentials

\* the facade was constructed without both keys and no login() has resolved
Unpopulated ==
    /\ phase = "ready"
    /\ ~HasKeys(cfg)
    /\ \A i \in 1..Len(logins) : logins[i].state # "resolved"

\* C5: while the facade was constructed without both keys and no login() has
\* resolved, every document operation and upload that is invoked rejects at
\* once and issues no HTTP request.
C5_UnpopulatedClientFailsWithoutRequest ==
    [][(Unpopulated /\ Len(calls') = Len(calls) + 1) =>
          /\ calls'[Len(calls')].state = "rejected"
          /\ requests' = requests]_vars

C5_Witness ==
    /\ Unpopulated
    /\ \E i \in 1..Len(logins) : logins[i].state = "rejected"
    /\ \E c \in 1..Len(calls) :
          /\ calls[c].op = "upload"
          /\ calls[c].state = "rejected"
          /\ CallRequests(c) = {}

\* C6: an object returned by db() or file() holds the client the facade held
\* when the accessor was called, keeps it through later logins, and every call
\* and request made through the object uses that client.
C6_BoundToClientAtAccessorCall ==
    /\ [](\A c \in 1..Len(calls) :
              /\ calls[c].client = handles[calls[c].handle].instance
              /\ \A r \in CallRequests(c) :
                    requests[r].req.client = handles[calls[c].handle].instance)
    /\ [][/\ \A h \in 1..Len(handles) : handles'[h] = handles[h]
          /\ Len(handles') > Len(handles) =>
                handles'[Len(handles')].instance = instance]_vars

\* a call through an object taken before a successful login, made after it,
\* beside an object taken after the login
C6_Witness ==
    /\ instance # EmptyInstance
    /\ \E c \in 1..Len(calls) :
          /\ handles[calls[c].handle].instance = EmptyInstance
          /\ calls[c].client = EmptyInstance
          /\ \E i \in 1..Len(logins) : logins[i].state = "resolved"
    /\ \E h \in 1..Len(handles) : handles[h].instance = instance

\* C7: every document or RPC call that failed with an HTTP response rejects
\* with an object whose httpStatus is the response status and whose exception
\* is the body's exception when it has one, else its exc_type, else ''.
C7_ErrorCarriesStatusAndException ==
    \A c \in 1..Len(calls) :
        (/\ calls[c].op \in DbOps
         /\ calls[c].state = "rejected"
         /\ CallRequests(c) # {}
         /\ requests[LastRequest(c)].res.received) =>
            LET res == requests[LastRequest(c)].res
                e == calls[c].error
            IN  /\ e.httpStatus = res.status
                /\ e.exception =
                      IF "exception" \in DOMAIN res.data THEN res.data.exception
                      ELSE IF "exc_type" \in DOMAIN res.data THEN res.data.exc_type
                      ELSE ""

C7_Witness ==
    \E c \in 1..Len(calls) :
        /\ calls[c].op = "renameDoc"
        /\ calls[c].state = "rejected"
        /\ CallRequests(c) # {}
        /\ DOMAIN requests[LastRequest(c)].res.data = {"exception", "exc_type"}
        /\ requests[LastRequest(c)].res.data.exception = ""
        /\ calls[c].error.exception = ""
        /\ calls[c].error.httpStatus = 404

\* C8: a call whose request failed, with a non-2xx answer or with no answer
\* at all, rejects with an object carrying httpStatus, httpStatusText, message
\* and exception.
C8_EveryFailureIsNormalized ==
    \A c \in 1..Len(calls) :
        (calls[c].state = "rejected" /\ CallRequests(c) # {}) =>
            {"httpStatus", "httpStatusText", "message", "exception"}
                \subseteq DOMAIN calls[c].error
\* whether a settled request was answered with a 2xx
Answered2xx(r) == requests[r].settled /\ AxiosResolves(requests[r].res)
Failed(r) == requests[r].settled /\ ~AxiosResolves(requests[r].res)

\* C9: getLastDoc first issues one list request with limit 1 and fields
\* ['name'], ordered by 'creation desc' unless args has an orderBy; a getDoc
\* request follows only once the list request was answered with a non-empty
\* list, for the name of its first item, and the call resolves with that
\* record; an empty list resolves with {} and a failed list request rejects,
\* both with no getDoc request.
C9_LastDocListsThenGets ==
    \A c \in 1..Len(calls) :
        (calls[c].op = "getLastDoc" /\ CallRequests(c) # {}) =>
            LET n == Cardinality(CallRequests(c))
                r1 == FirstRequest(c)
                r2 == LastRequest(c)
                list == requests[r1].req
                args == calls[c].in.args
            IN  /\ n \in {1, 2}
                /\ list.method = "GET"
                /\ list.url = "/api/resource/" \o calls[c].in.doctype
                /\ list.params.limit = Some(1)
                /\ list.params.fields = "[\"name\"]"
                /\ (args = None \/ "orderBy" \notin DOMAIN args[1]) =>
                        list.params.order_by = "creation desc"
                /\ n = 2 =>
                      /\ Answered2xx(r1)
                      /\ Len(requests[r1].res.data.data) > 0
                      /\ requests[r2].req.method = "GET"
                      /\ requests[r2].req.url =
                            "/api/resource/" \o calls[c].in.doctype \o "/"
                                \o encodeURIComponent(requests[r1].res.data.data[1].name)
                      /\ calls[c].state = "resolved" =>
                            calls[c].result = Some(requests[r2].res.data.data)
                /\ (Answered2xx(r1) /\ Len(requests[r1].res.data.data) = 0) =>
                      /\ n = 1
                      /\ calls[c].state = "resolved"
                      /\ calls[c].result = Some(NoParams)
                /\ Failed(r1) => (n = 1 /\ calls[c].state = "rejected")
                /\ ~requests[r1].settled => n = 1

C9_Witness ==
    \E c \in 1..Len(calls) :
        /\ calls[c].op = "getLastDoc"
        /\ calls[c].state = "resolved"
        /\ Cardinality(CallRequests(c)) = 2
        /\ Len(requests[FirstRequest(c)].res.data.data) = 2
        /\ requests[FirstRequest(c)].req.params.order_by = "creation desc"
        /\ requests[LastRequest(c)].req.url = "/api/resource/ToDo/TD%202"
        /\ calls[c].result = Some(StoredDoc)

\* the number of requests a call issued, and what a failed request leads to
RequestCounts(c, expected) ==
    LET n == Cardinality(CallRequests(c))
    IN  /\ calls[c].op # "getLastDoc" => n = expected
        /\ calls[c].op = "getLastDoc" => n <= 2
        /\ \A r \in CallRequests(c) :
              /\ Failed(r) => (calls[c].state = "rejected" /\ r = LastRequest(c))
              /\ ~requests[r].settled => (calls[c].state = "inflight" /\ r = LastRequest(c))

\* once a call has settled, its outcome stands and it issues nothing more
SettledIsFinal ==
    \A c \in 1..Len(calls) :
        calls[c].state # "inflight" =>
            /\ calls'[c] = calls[c]
            /\ {r \in 1..Len(requests') : requests'[r].owner = <<"call", c>>}
                  = CallRequests(c)

\* C10 as stated: every call of an operation other than getLastDoc issues
\* exactly one request whether it succeeds or fails, getLastDoc at most two,
\* and a failed request rejects the call, which issues nothing after it.
C10_ExactlyOneRequestPerCall ==
    \A c \in 1..Len(calls) : RequestCounts(c, 1)

\* C10 as amended: a call through a populated client issues exactly one
\* request (getLastDoc at most two), a call through the {} placeholder issues
\* none; a failed request rejects the call and is its last request, and a
\* settled call keeps its outcome and issues nothing more.
C10_OneRequestPerCallOnAClient ==
    /\ [](\A c \in 1..Len(calls) :
              RequestCounts(c, IF calls[c].client = EmptyInstance THEN 0 ELSE 1))
    /\ [][SettledIsFinal]_vars

C10_Witness ==
    \E c \in 1..Len(calls) :
        /\ calls[c].op = "createManyDocs"
        /\ calls[c].state = "rejected"
        /\ Cardinality(CallRequests(c)) = 1
        /\ Failed(LastRequest(c))

\* a browser context: window and document both exist
Browser(e) == e.hasWindow /\ e.hasDocument

\* the page carries a CSRF token that is not the unrendered placeholder
PageToken(e) == Truthy(e.csrf_token) /\ e.csrf_token # "{{ csrf_token }}"

\* C11: in every browser context, each client the factories make carries,
\* for every header name the caller supplied (Accept, Content-Type,
\* X-Frappe-Site-Name and X-Frappe-CSRF-Token included), the caller's value.
C11_CallerHeadersWin ==
    Browser(env) =>
        \A n \in 1..Len(clients) :
            \A k \in DOMAIN cfg.headers :
                /\ k \in DOMAIN clients[n].headers
                /\ clients[n].headers[k] = cfg.headers[k]

\* C12: in every context, with or without window and document, building the
\* key-based client and the common headers never throws, and a client carries
\* a CSRF header the caller did not supply only when the page token is
\* present and is not '{{ csrf_token }}'.
C12_HeaderBuildingNeverThrows ==
    /\ phase # "ctor_threw"
    /\ \A i \in 1..Len(logins) : logins[i].error # ReferenceError
    /\ (HasKeys(cfg) /\ phase = "ready") => instance \in 1..Len(clients)
    /\ \A n \in 1..Len(clients) :
          ("X-Frappe-CSRF-Token" \in DOMAIN clients[n].headers
              /\ "X-Frappe-CSRF-Token" \notin DOMAIN cfg.headers) => PageToken(env)

\* the values a form carries under key k, in order
RECURSIVE ValuesOf(_, _)
ValuesOf(form, k) ==
    IF form = <<>> THEN <<>>
    ELSE IF Head(form).key = k THEN <<Head(form).value>> \o ValuesOf(Tail(form), k)
    ELSE ValuesOf(Tail(form), k)

\* an argument of upload that is given and truthy
Given(args, k) == k \in DOMAIN args /\ args[k] # ""

C14_ListArgsBecomeParams ==
    \A c \in 1..Len(calls) :
        (calls[c].op = "getDocList" /\ calls[c].in.args # None /\ CallRequests(c) # {}) =>
            LET p == requests[FirstRequest(c)].req.params
                a == calls[c].in.args[1]
                has(k) == k \in DOMAIN a
            IN  /\ p.filters = IF has("filters")
                                THEN "[[\"creation\",\">\",\"2021-10-09\"]]" ELSE Undef
                /\ p.or_filters = IF has("orFilters")
                                   THEN "[[\"owner\",\"=\",\"me\"],[\"status\",\"=\",\"Open\"]]"
                                   ELSE Undef
                /\ p.fields = IF has("fields") THEN "[\"name\",\"creation\"]" ELSE Undef
                /\ has("orderBy") =>
                      p.order_by = a.orderBy[1].field \o " " \o
                          (IF a.orderBy[1].order = Undef THEN "asc" ELSE a.orderBy[1].order)
                /\ p.limit = (IF has("limit") THEN a.limit ELSE None)
                /\ p.limit_start = (IF has("limit_start") THEN a.limit_start ELSE None)
                /\ p.as_dict = ~(has("asDict") /\ a.asDict = Some(FALSE))
                /\ DOMAIN a = {"filters", "limit", "orderBy"} /\ a.orderBy[1].order = "desc" =>
                      /\ p.filters = "[[\"creation\",\">\",\"2021-10-09\"]]"
                      /\ p.order_by = "creation desc"
                      /\ p.limit = Some(10)

\* the example of the specification
C14_Witness ==
    /\ \E c \in 1..Len(calls) :
          /\ calls[c].op = "getDocList"
          /\ calls[c].in.args =
                Some([filters |-> Some(SomeFilters), limit |-> Some(10),
                      orderBy |-> Some([field |-> "creation", order |-> "desc"])])
          /\ CallRequests(c) # {}
          /\ requests[FirstRequest(c)].req.params.order_by = "creation desc"
          /\ requests[FirstRequest(c)].req.params.as_dict

\* C15: every getCount call on a client sends params with cmd
\* 'frappe.client.get_count', the doctype and a filters key; filters is the
\* JSON string of the caller's filters when filters were passed and the empty
\* array otherwise; cache and debug are present exactly when the argument is
\* true; the call resolves with the message field of the response body.
C15_CountParams ==
    \A c \in 1..Len(calls) :
        (calls[c].op = "getCount" /\ calls[c].client # EmptyInstance) =>
            /\ Cardinality(CallRequests(c)) = 1
            /\ LET r == FirstRequest(c)
                   p == requests[r].req.params
                   in == calls[c].in
               IN  /\ requests[r].req.method = "GET"
                   /\ {"cmd", "doctype", "filters"} \subseteq DOMAIN p
                   /\ p.cmd = "frappe.client.get_count"
                   /\ p.doctype = in.doctype
                   /\ p.filters =
                         IF in.filters = None THEN [isString |-> FALSE, value |-> "[]"]
                         ELSE IF in.filters = Some(<<>>) THEN [isString |-> TRUE, value |-> "[]"]
                         ELSE [isString |-> TRUE,
                               value |-> "[[\"creation\",\">\",\"2021-10-09\"]]"]
                   /\ ("cache" \in DOMAIN p) = in.cache
                   /\ ("debug" \in DOMAIN p) = in.debug
                   /\ DOMAIN p \subseteq {"cmd", "doctype", "filters", "cache", "debug"}
                   /\ calls[c].state = "resolved" =>
                         calls[c].result = Some(requests[r].res.data.message)

\* a count without filters, cached, that resolved with the body's message
C15_Witness ==
    \E c \in 1..Len(calls) :
        /\ calls[c].op = "getCount"
        /\ calls[c].in.filters = None
        /\ calls[c].in.cache /\ ~calls[c].in.debug
        /\ calls[c].state = "resolved"
        /\ calls[c].result = Some(42)
        /\ DOMAIN requests[FirstRequest(c)].req.params = {"cmd", "doctype", "filters", "cache"}

\* login call i completes successfully in this step
Resolves(i) == logins[i].state = "inflight" /\ logins'[i].state = "resolved"

\* login call i fails in this step: at once, or when its request settles
Rejects(i) ==
    /\ logins'[i].state = "rejected"
    /\ i \in 1..Len(logins) => logins[i].state = "inflight"

\* a client as getInstanceWithCredentials returns it: base URL, common headers
\* and the session cookie
CompleteClient(client) ==
    /\ client.baseURL = cfg.url
    /\ {"Accept", "Content-Type", "Cookie"} \subseteq DOMAIN client.headers
    /\ StartsWith(client.headers["Cookie"], "sid=")

\* what a step may do to the held client, the clients and the requests
SlotStep ==
    /\ \A n \in 1..Len(clients) : clients'[n] = clients[n]
    /\ \A r \in 1..Len(requests) :
          /\ requests'[r].req = requests[r].req
          /\ requests'[r].owner = requests[r].owner
    /\ \A c \in 1..Len(calls) : calls'[c].client = calls[c].client
    /\ (phase = "ready" /\ instance' # instance) =>
          \E i \in 1..Len(logins) :
              /\ Resolves(i)
              /\ instance' = logins'[i].made
              /\ instance' = Len(clients) + 1
              /\ Len(clients') = Len(clients) + 1
              /\ CompleteClient(clients'[instance'])
    /\ Len(handles') > Len(handles) =>
          /\ handles'[Len(handles')].instance = instance
          /\ instance' = instance
    /\ Len(calls') > Len(calls) =>
          LET call == calls'[Len(calls')]
          IN  /\ call.client = handles[call.handle].instance
              /\ call.client \in 0..Len(clients)
              /\ \A i \in 1..Len(logins) : logins[i].made # 0 => logins[i].state = "resolved"
              /\ instance' = instance
              /\ call.client # EmptyInstance =>
                    /\ Len(requests') = Len(requests) + 1
                    /\ requests'[Len(requests')].req.client = call.client

\* C16: the held client changes only in the step in which a login()
\* resolves, and then to the new, complete client of that login; clients are
\* never modified; an operation issued while a login is in flight runs
\* against the client its object took from the slot, never against a client
\* of an unfinished login; and a request that was issued keeps its client
\* whatever replaces the slot later.
C16_SlotIsReplaceOnly ==
    /\ [][SlotStep]_vars
    /\ [](\A i \in 1..Len(logins) : logins[i].state = "inflight" => logins[i].made = 0)
    /\ [](\A c \in 1..Len(calls) : \A r \in CallRequests(c) :
              requests[r].req.client = calls[c].client)

\* a call issued on the key-based client while the second login() was in
\* flight; the first login() has replaced the slot and the call's request is
\* still in flight on the client held before
C16_Witness ==
    /\ Len(logins) = 2 /\ Len(calls) = 1
    /\ logins[2].state = "inflight"
    /\ logins[1].state = "resolved"
    /\ instance = logins[1].made
    /\ calls[1].client # EmptyInstance
    /\ calls[1].client # instance
    /\ calls[1].state = "inflight"
    /\ \A r \in CallRequests(1) :
          /\ r > LoginReq(2)
          /\ ~requests[r].settled
          /\ requests[r].req.client = logins[1].before

\* the client the facade holds from its construction
Constructed == IF HasKeys(cfg) /\ phase = "ready" THEN 1 ELSE EmptyInstance

\* C17: the step in which a login() fails, at once or when its request was
\* rejected, answered with a non-200 status or answered without a sid=
\* cookie, leaves the held client and all clients as they were; while no
\* login() has resolved the facade holds what its construction left; and a
\* call through a client, made before or after failed logins, issues its
\* request through that client.
C17_FailedLoginKeepsClient ==
    /\ [][(\E i \in 1..Len(logins') : Rejects(i)) =>
              (instance' = instance /\ clients' = clients)]_vars
    /\ []((\A i \in 1..Len(logins) : logins[i].state # "resolved") =>
              instance = Constructed)
    /\ [](\A c \in 1..Len(calls) :
              calls[c].client # EmptyInstance =>
                  /\ CallRequests(c) # {}
                  /\ calls[c].error # NotAFunction
                  /\ requests[FirstRequest(c)].req.client = calls[c].client)

\* a second login() answered 401 after a first one that resolved: the facade
\* still holds the first login's client, and a call issued after the second
\* login() began went out through it
C17_Witness ==
    /\ Len(logins) = 2 /\ Len(calls) = 1
    /\ logins[1].state = "resolved"
    /\ logins[2].state = "rejected"
    /\ requests[LoginReq(2)].res.status = 401
    /\ instance = logins[1].made
    /\ calls[1].client = instance
    /\ CallRequests(1) # {}
    /\ FirstRequest(1) > LoginReq(2)

====
